---- MODULE Spec2Model ----
(***************************************************************************)
(* Model of submissions/python_task_2.py (distance matrix, unroll,         *)
(* threshold filter, toll rates) and of time_check in                      *)
(* submissions/python_task_1.py.                                           *)
(*                                                                         *)
(* A pandas DataFrame is a mutable object: the long-format frame is one    *)
(* variable (unrolled) that the functions receive by reference.  A call    *)
(* that raises leaves [raised |-> <exception name>]; a call that returns   *)
(* leaves [raised |-> "", value |-> ...].                                  *)
(* Distances are integers.  A toll rate is kept in tenths (0.8 * d is the  *)
(* integer 8 * d), a mean as the pair sum / count, so every comparison is  *)
(* exact.  An instant is a number of seconds; the day string "2023-01-dd"  *)
(* is its day number dd, the time string "hh:mm:ss" the triple             *)
(* <<hh, mm, ss>>.                                                         *)
(***************************************************************************)
EXTENDS Integers, Sequences, FiniteSets, TLC

\* ---- bounds of the model ----
MaxPoint == 3
MaxDist == 1
MaxEdges == 2
MaxRecords == 3

Points == 1..MaxPoint
Dists == 0..MaxDist

VARIABLES df, distance_matrix, unrolled, within_threshold_ids, reference_id,
          rebuilt, ran, log, completeness_check

vars == <<df, distance_matrix, unrolled, within_threshold_ids, reference_id,
          rebuilt, ran, log, completeness_check>>

\* ---- helpers -----------------------------------------------------------
Range(s) == {s[x] : x \in DOMAIN s}

BoundedSeq(S, n) == UNION {[1..k -> S] : k \in 0..n}

\* sorted(set(...)): the ascending list of a set of ids
RECURSIVE sorted(_)
sorted(S) ==
    IF S = {} THEN <<>>
    ELSE LET m == CHOOSE x \in S : \A y \in S : x <= y
         IN  <<m>> \o sorted(S \ {m})

RECURSIVE SumDistance(_, _)
SumDistance(rows, R) ==
    IF R = {} THEN 0
    ELSE LET r == CHOOSE x \in R : TRUE
         IN  rows[r].distance + SumDistance(rows, R \ {r})

\* ---- calculate_distance_matrix ------------------------------------------
unique_ids(rows) ==
    sorted({rows[r].id_start : r \in DOMAIN rows}
           \cup {rows[r].id_end : r \in DOMAIN rows})

\* pd.DataFrame(index=unique_ids, columns=unique_ids).fillna(0)
Zeros(ids) == [p \in Range(ids) \X Range(ids) |-> 0]

\* for index, row in df.iterrows(): distance_matrix.at[id_start, id_end] += distance
RECURSIVE Populate(_, _, _)
Populate(M, rows, r) ==
    IF DOMAIN M = {} \/ r > Len(rows) THEN M
    ELSE LET row == rows[r]
         IN  Populate([M EXCEPT ![<<row.id_start, row.id_end>>] = @ + row.distance],
                      rows, r + 1)

\* the body of the triple loop: the in-place accumulation into [i, j] of the
\* two legs through k, read from the matrix as the earlier iterations left it
AccumulateCell(M, k, i, j) ==
    IF M[<<i, k>>] > 0 /\ M[<<k, j>>] > 0 /\ i # j
    THEN [M EXCEPT ![<<i, j>>] = @ + M[<<i, k>>] + M[<<k, j>>]]
    ELSE M

\* for j in unique_ids (a matrix without cells has no iteration)
RECURSIVE AccumulateJ(_, _, _, _, _)
AccumulateJ(M, ids, k, i, jpos) ==
    IF DOMAIN M = {} \/ jpos > Len(ids) THEN M
    ELSE AccumulateJ(AccumulateCell(M, k, i, ids[jpos]), ids, k, i, jpos + 1)

\* for i in unique_ids
RECURSIVE AccumulateI(_, _, _, _)
AccumulateI(M, ids, k, ipos) ==
    IF DOMAIN M = {} \/ ipos > Len(ids) THEN M
    ELSE AccumulateI(AccumulateJ(M, ids, k, ids[ipos], 1), ids, k, ipos + 1)

\* for k in unique_ids
RECURSIVE Accumulate(_, _, _)
Accumulate(M, ids, kpos) ==
    IF DOMAIN M = {} \/ kpos > Len(ids) THEN M
    ELSE Accumulate(AccumulateI(M, ids, ids[kpos], 1), ids, kpos + 1)

\* variant: the diagonal left as the loops accumulated it
SetDiagonalZeroNoop(M) == M

\* Set diagonal values to 0: distance_matrix.values[[range(n)]*2] = 0, the
\* two ranges indexing rows and columns of the frame's own integer block
SetDiagonalZero(M) == [p \in DOMAIN M |-> IF p[1] = p[2] THEN 0 ELSE M[p]]

\* variant: the transpose not added
AddTransposeOnce(M) == M

\* distance_matrix + distance_matrix.T
AddTranspose(M) == [p \in DOMAIN M |-> M[p] + M[<<p[2], p[1]>>]]

calculate_distance_matrix(rows) ==
    LET ids == unique_ids(rows)
    IN  [index   |-> ids,
         columns |-> ids,
         values  |-> AddTranspose(SetDiagonalZero(
                         Accumulate(Populate(Zeros(ids), rows, 1), ids, 1)))]

\* ---- unroll_distance_matrix ---------------------------------------------
\* variant: a row for every position pair, i = j included
UnrollStepAll(dm, p) ==
    LET n == Len(dm.columns)
        i == (p \div n) + 1
        j == (p % n) + 1
    IN  <<[id_start |-> dm.index[i], id_end |-> dm.columns[j],
           distance |-> dm.values[<<dm.index[i], dm.columns[j]>>]]>>

\* the row appended at step p of the double loop (none when i = j)
UnrollStep(dm, p) ==
    LET n == Len(dm.columns)
        i == (p \div n) + 1
        j == (p % n) + 1
    IN  IF i # j
        THEN <<[id_start |-> dm.index[i], id_end |-> dm.columns[j],
                distance |-> dm.values[<<dm.index[i], dm.columns[j]>>]]>>
        ELSE <<>>

RECURSIVE UnrollFrom(_, _)
UnrollFrom(dm, p) ==
    IF p >= Len(dm.index) * Len(dm.columns) THEN <<>>
    ELSE UnrollStep(dm, p) \o UnrollFrom(dm, p + 1)

unroll_distance_matrix(dm) ==
    [columns |-> {"id_start", "id_end", "distance"}, rows |-> UnrollFrom(dm, 0)]

\* ---- find_ids_within_ten_percentage_threshold ---------------------------
\* mean = total / count (NaN when count = 0: every comparison is then False);
\* distance >= mean - 0.1*mean  <=>  10*count*distance >= 9*total
find_ids_within_ten_percentage_threshold(frame, reference) ==
    IF "distance" \notin frame.columns
    THEN [raised |-> "KeyError", value |-> <<>>]
    ELSE LET rows == frame.rows
             reference_rows == {r \in DOMAIN rows : rows[r].id_start = reference}
             count == Cardinality(reference_rows)
             total == SumDistance(rows, reference_rows)
             within(d) == /\ count > 0
                          /\ 10 * count * d >= 9 * total
                          /\ 10 * count * d <= 11 * total
         IN  [raised |-> "",
              value  |-> sorted({rows[r].id_start :
                                   r \in {x \in DOMAIN rows : within(rows[x].distance)}})]

\* ---- calculate_toll_rate ------------------------------------------------
\* the multipliers 0.8, 1.2, 1.5, 2.2, 3.6 in tenths
moto_rate == 8
car_rate == 12
rv_rate == 15
bus_rate == 22
truck_rate == 36

\* variant: another truck multiplier
RateRowTruckOff(row) ==
    [id_start |-> row.id_start, id_end |-> row.id_end,
     moto  |-> moto_rate * row.distance,
     car   |-> car_rate * row.distance,
     rv    |-> rv_rate * row.distance,
     bus   |-> bus_rate * row.distance,
     truck |-> (truck_rate + 1) * row.distance]

\* the columns of one row after lines 113-118
RateRow(row) ==
    [id_start |-> row.id_start, id_end |-> row.id_end,
     moto  |-> moto_rate * row.distance,
     car   |-> car_rate * row.distance,
     rv    |-> rv_rate * row.distance,
     bus   |-> bus_rate * row.distance,
     truck |-> truck_rate * row.distance]

\* the frame after the in-place column assignments and df.drop('distance')
calculate_toll_rate(frame) ==
    [columns |-> (frame.columns \cup {"moto", "car", "rv", "bus", "truck"})
                     \ {"distance"},
     rows    |-> [r \in DOMAIN frame.rows |-> RateRow(frame.rows[r])]]

\* ---- time_check ----------------------------------------------------------
NaT == [nat |-> TRUE, value |-> 0]

\* pd.to_datetime(day + ' ' + time, errors='coerce', format='%Y-%m-%d %H:%M:%S'):
\* a string that does not match the format or names no calendar instant is NaT
to_datetime(day, time) ==
    IF /\ day \in 1..31
       /\ time[1] \in 0..23 /\ time[2] \in 0..59 /\ time[3] \in 0..59
    THEN [nat |-> FALSE,
          value |-> day * 86400 + time[1] * 3600 + time[2] * 60 + time[3]]
    ELSE NaT

start_datetime(rec) == to_datetime(rec.startDay, rec.startTime)
end_datetime(rec) == to_datetime(rec.endDay, rec.endTime)

\* pd.to_datetime('00:00:00').time(), pd.to_datetime('23:59:59').time()
start_time == 0
end_time == 86399

\* pd.Timedelta(days=...)
Timedelta(days) == days * 86400

SetMin(S) == CHOOSE x \in S : \A y \in S : x <= y
SetMax(S) == CHOOSE x \in S : \A y \in S : x >= y

\* the rows of one (id, id_2) group
Group(frame, key) == {r \in DOMAIN frame : <<frame[r].id, frame[r].id_2>> = key}

Valid(col) == {c.value : c \in {x \in col : ~x.nat}}

\* Series.dt.time.min() / .max() on a column that holds a time next to a NaT:
\* the object-dtype reduction fills the NaT with a float infinity and the
\* comparison of datetime.time with float raises TypeError
MixedNaT(col) == (\E c \in col : c.nat) /\ (\E c \in col : ~c.nat)

\* the lambda of groupby(['id', 'id_2']).apply on a group whose reductions do
\* not raise; max(), min() skip NaT, and a comparison with NaT or NaN is False
GroupVerdict(frame, key) ==
    LET starts == {start_datetime(frame[r]) : r \in Group(frame, key)}
        ends   == {end_datetime(frame[r]) : r \in Group(frame, key)}
    IN  /\ Valid(starts) # {} /\ Valid(ends) # {}
        /\ SetMax(Valid(ends)) - SetMin(Valid(starts)) >= Timedelta(7)
        /\ SetMin({v % 86400 : v \in Valid(starts)}) = start_time
        /\ SetMax({v % 86400 : v \in Valid(ends)}) = end_time

GroupRaises(frame, key) ==
    \/ MixedNaT({start_datetime(frame[r]) : r \in Group(frame, key)})
    \/ MixedNaT({end_datetime(frame[r]) : r \in Group(frame, key)})

Keys(frame) == {<<frame[r].id, frame[r].id_2>> : r \in DOMAIN frame}

time_check(frame) ==
    IF \E key \in Keys(frame) : GroupRaises(frame, key)
    THEN [raised |-> "TypeError", value |-> <<>>]
    ELSE [raised |-> "", value |-> [key \in Keys(frame) |-> GroupVerdict(frame, key)]]

\* ---- the pipeline -------------------------------------------------------
NoMatrix == [index |-> <<>>, columns |-> <<>>, values |-> <<>>]
NoFrame == [columns |-> {}, rows |-> <<>>]
NoResult == [raised |-> "", value |-> <<>>]

Init ==
    /\ df \in BoundedSeq([id_start : Points, id_end : Points, distance : Dists],
                         MaxEdges)
    /\ distance_matrix = NoMatrix
    /\ unrolled = NoFrame
    /\ within_threshold_ids = NoResult
    /\ reference_id = 0
    /\ rebuilt = [raised |-> "", value |-> NoMatrix]
    /\ ran = {}
    /\ log = <<>>
    /\ completeness_check = NoResult

CalculateDistanceMatrix ==
    /\ ran = {}
    /\ distance_matrix' = calculate_distance_matrix(df)
    /\ ran' = {"matrix"}
    /\ UNCHANGED <<df, unrolled, within_threshold_ids, reference_id, rebuilt,
                   log, completeness_check>>

UnrollDistanceMatrix ==
    /\ ran = {"matrix"}
    /\ unrolled' = unroll_distance_matrix(distance_matrix)
    /\ ran' = ran \cup {"unroll"}
    /\ UNCHANGED <<df, distance_matrix, within_threshold_ids, reference_id, rebuilt,
                   log, completeness_check>>

\* calculate_toll_rate(unrolled): the frame passed in is itself changed and
\* returned
CalculateTollRate ==
    /\ "unroll" \in ran
    /\ ran \cap {"toll", "filter", "rebuild"} = {}
    /\ unrolled' = calculate_toll_rate(unrolled)
    /\ ran' = ran \cup {"toll"}
    /\ UNCHANGED <<df, distance_matrix, within_threshold_ids, reference_id, rebuilt,
                   log, completeness_check>>

FindIdsWithinTenPercentageThreshold ==
    /\ "unroll" \in ran
    /\ ran \cap {"filter", "rebuild"} = {}
    /\ \E reference \in 1..(MaxPoint + 1) :
         /\ reference_id' = reference
         /\ within_threshold_ids' =
                find_ids_within_ten_percentage_threshold(unrolled, reference)
    /\ ran' = ran \cup {"filter"}
    /\ UNCHANGED <<df, distance_matrix, unrolled, rebuilt, log, completeness_check>>

\* calculate_distance_matrix(unrolled): the long-format rows aggregated again;
\* row['distance'] is a KeyError once the column is dropped
RecalculateDistanceMatrix ==
    /\ "unroll" \in ran
    /\ ran \cap {"filter", "rebuild"} = {}
    /\ rebuilt' = IF "distance" \in unrolled.columns
                  THEN [raised |-> "", value |-> calculate_distance_matrix(unrolled.rows)]
                  ELSE [raised |-> "KeyError", value |-> NoMatrix]
    /\ ran' = ran \cup {"rebuild"}
    /\ UNCHANGED <<df, distance_matrix, unrolled, within_threshold_ids, reference_id,
                   log, completeness_check>>

Next ==
    \/ CalculateDistanceMatrix
    \/ UnrollDistanceMatrix
    \/ CalculateTollRate
    \/ FindIdsWithinTenPercentageThreshold
    \/ RecalculateDistanceMatrix

Spec == Init /\ [][Next]_vars

\* the matrix, its unrolled rows, their rates and their re-aggregation,
\* without the threshold filter
NextMatrix ==
    \/ CalculateDistanceMatrix
    \/ UnrollDistanceMatrix
    \/ CalculateTollRate
    \/ RecalculateDistanceMatrix

SpecMatrix == Init /\ [][NextMatrix]_vars

\* ---- the interval log ---------------------------------------------------
\* "2023-01-02" is a Monday, "2023-01-08" the Sunday after it, "2023-01-32"
\* no date; "24:00:00" is no time
IntervalRecords ==
    [id : {1}, id_2 : {1, 2},
     startDay : {2, 32}, startTime : {<<0, 0, 0>>, <<0, 0, 5>>},
     endDay : {8, 9}, endTime : {<<23, 59, 59>>, <<12, 0, 0>>, <<24, 0, 0>>}]

InitTime ==
    /\ log \in BoundedSeq(IntervalRecords, MaxRecords)
    /\ completeness_check = NoResult
    /\ ran = {}
    /\ df = <<>>
    /\ distance_matrix = NoMatrix
    /\ unrolled = NoFrame
    /\ within_threshold_ids = NoResult
    /\ reference_id = 0
    /\ rebuilt = [raised |-> "", value |-> NoMatrix]

TimeCheck ==
    /\ ran = {}
    /\ completeness_check' = time_check(log)
    /\ ran' = {"time_check"}
    /\ UNCHANGED <<df, distance_matrix, unrolled, within_threshold_ids, reference_id,
                   rebuilt, log>>

NextTime == TimeCheck

SpecTime == InitTime /\ [][NextTime]_vars

\* ---- properties ---------------------------------------------------------
Built == "matrix" \in ran
PointsOf(rows) ==
    {rows[r].id_start : r \in DOMAIN rows} \cup {rows[r].id_end : r \in DOMAIN rows}

\* the sum of the distances of the triples that join a and b in either direction
DirectSum(rows, a, b) ==
    SumDistance(rows, {r \in DOMAIN rows : {rows[r].id_start, rows[r].id_end} = {a, b}})

\* C1: every off-diagonal cell of the built matrix is exactly the sum of the
\* triples that directly join its two points; a pair without a direct triple
\* has distance 0 even when both points are joined to a common third point.
InvC1_DirectAccumulation ==
    Built => \A a \in PointsOf(df) : \A b \in PointsOf(df) :
                a # b => distance_matrix.values[<<a, b>>] = DirectSum(df, a, b)

\* C2: the built matrix is symmetric and zero-diagonal, and its point axis
\* (index and columns alike) is exactly the set of points that occur as a
\* start or an end in the edge list.
InvC2_SymmetricZeroDiagonal ==
    Built =>
        /\ distance_matrix.index = distance_matrix.columns
        /\ Range(distance_matrix.index) = PointsOf(df)
        /\ Len(distance_matrix.index) = Cardinality(PointsOf(df))
        /\ DOMAIN distance_matrix.values = PointsOf(df) \X PointsOf(df)
        /\ \A a \in PointsOf(df) :
              /\ distance_matrix.values[<<a, a>>] = 0
              /\ \A b \in PointsOf(df) :
                    distance_matrix.values[<<a, b>>] = distance_matrix.values[<<b, a>>]

\* a matrix built from an edge list with a self-loop of positive distance and
\* a positive cell between two points
WitC2_SelfLoopAndEdge ==
    /\ Built
    /\ \E r \in DOMAIN df : df[r].id_start = df[r].id_end /\ df[r].distance > 0
    /\ \E a \in PointsOf(df) : \E b \in PointsOf(df) :
          a # b /\ distance_matrix.values[<<a, b>>] > 0

RoundTripped == "rebuild" \in ran /\ "toll" \notin ran

\* C3 as stated: unrolling the built matrix and aggregating the rows again
\* with calculate_distance_matrix reproduces the matrix cell for cell.
InvC3_RoundTripReproduces ==
    RoundTripped => rebuilt.raised = "" /\ rebuilt.value = distance_matrix

\* C3 as amended: the re-aggregated matrix has the point axis of the original
\* when that has two or more points (a matrix of fewer points unrolls to no
\* row and comes back without points); it is zero on the diagonal and every
\* off-diagonal cell is at least twice the original cell, so it reproduces
\* the original exactly when the original has no positive cell and is not
\* the matrix of a single point.
InvC3_RoundTripDoubles ==
    RoundTripped =>
        LET n == Len(distance_matrix.index)
            P == Range(distance_matrix.index)
        IN  /\ rebuilt.raised = ""
            /\ rebuilt.value.index = (IF n >= 2 THEN distance_matrix.index ELSE <<>>)
            /\ rebuilt.value.columns = rebuilt.value.index
            /\ n >= 2 => \A a \in P : \A b \in P :
                  /\ a = b => rebuilt.value.values[<<a, b>>] = 0
                  /\ a # b => rebuilt.value.values[<<a, b>>]
                                 >= 2 * distance_matrix.values[<<a, b>>]
            /\ (rebuilt.value = distance_matrix)
                  <=> /\ n # 1
                      /\ \A p \in DOMAIN distance_matrix.values :
                            distance_matrix.values[p] = 0

\* a round trip of a matrix with a positive cell
WitC3_RoundTripPositive ==
    /\ RoundTripped
    /\ \E p \in DOMAIN distance_matrix.values : distance_matrix.values[p] > 0
    /\ Len(distance_matrix.index) = MaxPoint

Position(seq, x) == CHOOSE i \in DOMAIN seq : seq[i] = x

\* row q comes after row r in row-major order over the point ordering idx
RowMajorBefore(idx, r, q) ==
    \/ Position(idx, r.id_start) < Position(idx, q.id_start)
    \/ /\ r.id_start = q.id_start
       /\ Position(idx, r.id_end) < Position(idx, q.id_end)

\* C4: the unrolled frame holds a row for every ordered pair of distinct
\* points of the matrix, each with the distance of its cell, and none with
\* id_start = id_end; the rows are n*(n-1) in number and strictly ascending in
\* row-major order over the matrix's point ordering (so no pair has two rows).
InvC4_UnrollRows ==
    ("unroll" \in ran /\ "toll" \notin ran) =>
        LET idx == distance_matrix.index
            n == Len(idx)
            rows == unrolled.rows
        IN  /\ Len(rows) = n * (n - 1)
            /\ unrolled.columns = {"id_start", "id_end", "distance"}
            /\ \A r \in DOMAIN rows :
                  /\ rows[r].id_start # rows[r].id_end
                  /\ rows[r].id_start \in Range(idx) /\ rows[r].id_end \in Range(idx)
                  /\ rows[r].distance =
                        distance_matrix.values[<<rows[r].id_start, rows[r].id_end>>]
                  /\ r < Len(rows) => RowMajorBefore(idx, rows[r], rows[r + 1])
            /\ \A a \in Range(idx) : \A b \in Range(idx) :
                  a # b => \E r \in DOMAIN rows :
                              rows[r].id_start = a /\ rows[r].id_end = b

\* the unrolled rows of a matrix over MaxPoint points with a positive cell
WitC4_UnrolledFull ==
    /\ "unroll" \in ran
    /\ "toll" \notin ran
    /\ Len(distance_matrix.index) = MaxPoint
    /\ Len(unrolled.rows) = MaxPoint * (MaxPoint - 1)
    /\ \E r \in DOMAIN unrolled.rows : unrolled.rows[r].distance > 0

\* C8 as stated: with no row whose id_start is the reference id, the filter
\* fails with ReferenceNotFound and returns no result.
InvC8_ReferenceNotFound ==
    ( /\ "filter" \in ran
      /\ "toll" \notin ran
      /\ \A r \in DOMAIN unrolled.rows : unrolled.rows[r].id_start # reference_id )
    => within_threshold_ids.raised = "ReferenceNotFound"

RECURSIVE GCD(_, _)
GCD(a, b) == IF b = 0 THEN a ELSE GCD(b, a % b)

\* a / b of two non-negative floats as a reduced fraction; 0/0 is NaN (<<0, 0>>)
\* and x/0 is inf (<<1, 0>>)
Divide(a, b) ==
    IF b = 0 THEN (IF a = 0 THEN <<0, 0>> ELSE <<1, 0>>)
    ELSE <<a \div GCD(a, b), b \div GCD(a, b)>>

NonNegativeRates(row) ==
    row.moto >= 0 /\ row.car >= 0 /\ row.rv >= 0 /\ row.bus >= 0 /\ row.truck >= 0

InvC10_InputFrameUnchanged ==
    "toll" \in ran =>
        /\ unrolled = unroll_distance_matrix(distance_matrix)
        /\ "filter" \in ran =>
              within_threshold_ids =
                  find_ids_within_ten_percentage_threshold(
                      unroll_distance_matrix(distance_matrix), reference_id)

Returned == "time_check" \in ran

AllParse(frame, key) ==
    \A r \in Group(frame, key) :
        ~start_datetime(frame[r]).nat /\ ~end_datetime(frame[r]).nat

\* the three coverage conditions of a group whose records all parse
Covers(frame, key) ==
    LET starts == {start_datetime(frame[r]).value : r \in Group(frame, key)}
        ends   == {end_datetime(frame[r]).value : r \in Group(frame, key)}
    IN  /\ SetMax(ends) - SetMin(starts) >= 7 * 86400
        /\ \E v \in starts : v % 86400 = 0
        /\ \E v \in ends : v % 86400 = 86399

\* C5: for every group whose records all parse, time_check returns true for
\* the group's key exactly when the three coverage conditions hold of the
\* records of that key, whatever the records of the other keys are.
InvC5_VerdictIffCoverage ==
    Returned =>
        \A key \in Keys(log) :
            AllParse(log, key) =>
                /\ completeness_check.raised = ""
                /\ completeness_check.value[key] = Covers(log, key)

\* day 2 of the log's month is a Monday: 0 = Monday ... 6 = Sunday
Weekday(day) == (day + 5) % 7

\* the group runs from a Monday 00:00:00 through the following Sunday 23:59:59
MondayThroughSunday(frame, key) ==
    /\ AllParse(frame, key)
    /\ LET starts == {start_datetime(frame[r]).value : r \in Group(frame, key)}
           ends   == {end_datetime(frame[r]).value : r \in Group(frame, key)}
       IN  /\ Weekday(SetMin(starts) \div 86400) = 0
           /\ SetMin(starts) % 86400 = 0
           /\ SetMax(ends) = SetMin(starts) + 6 * 86400 + 86399

\* C6: a group that spans a Monday 00:00:00 through the following Sunday
\* 23:59:59 gets the verdict true.
InvC6_FullWeekIsTrue ==
    Returned =>
        \A key \in Keys(log) :
            MondayThroughSunday(log, key) =>
                /\ completeness_check.raised = ""
                /\ completeness_check.value[key]

\* C7: a group with a record whose day/time fields do not parse gets the
\* verdict false without any exception, whatever its other records are, and
\* the other groups keep the verdict their own records give.
InvC7_ParseFailureIsFalse ==
    Returned =>
        /\ completeness_check.raised = ""
        /\ \A key \in Keys(log) :
              /\ ~AllParse(log, key) => ~completeness_check.value[key]
              /\ AllParse(log, key) => completeness_check.value[key] = Covers(log, key)

====
